---- MODULE Spec2Model ----
(***************************************************************************)
(* TB Resonance Optimizer (src/TB-Resonance-Optimizer.py): a Streamlit     *)
(* script.  Every user interaction reruns the script top to bottom; the    *)
(* state that survives a rerun is st.session_state and the widget values.  *)
(* One action of this module is one rerun triggered by one interaction.    *)
(*                                                                         *)
(* Scores are Python floats (int base * float multiplier).  A float is     *)
(* modelled as [int, frac]: the value int + frac * 2^-46, so that the      *)
(* rounding of the IEEE-754 double product is kept (700 * 1.4 is           *)
(* 979.9999999999999, not 980).                                            *)
(***************************************************************************)
EXTENDS Integers, Sequences, FiniteSets, TLC

\* ------------------------------------------------------------------ bounds
\* Largest number of part instances the user enters in total.
MaxParts == 6

\* ------------------------------------------------------------- constants
PartOrder == <<"E", "R4", "R3", "R2", "R1", "R", "Y3", "Y2", "Y1", "Y">>

PartTypes == {PartOrder[i] : i \in 1..Len(PartOrder)}

\* A faulty table (R2 worth 150), to show which statements read the table.
PART_BASE_VALUES_R2Low ==
    [E |-> 1000, R4 |-> 850, R3 |-> 700, R2 |-> 150, R1 |-> 400,
     R |-> 300, Y3 |-> 200, Y2 |-> 150, Y1 |-> 100, Y |-> 50]

\* PART_BASE_VALUES
PART_BASE_VALUES ==
    [E |-> 1000, R4 |-> 850, R3 |-> 700, R2 |-> 550, R1 |-> 400,
     R |-> 300, Y3 |-> 200, Y2 |-> 150, Y1 |-> 100, Y |-> 50]

\* The table in dict order; mult10 is the multiplier in tenths (1.2 is 12).
MULTIPLIER_DATA ==
    << [chips |-> 0,  mult10 |-> 10], [chips |-> 1,  mult10 |-> 12],
       [chips |-> 2,  mult10 |-> 14], [chips |-> 4,  mult10 |-> 16],
       [chips |-> 6,  mult10 |-> 18], [chips |-> 9,  mult10 |-> 20],
       [chips |-> 12, mult10 |-> 22], [chips |-> 16, mult10 |-> 24],
       [chips |-> 20, mult10 |-> 26], [chips |-> 25, mult10 |-> 28],
       [chips |-> 30, mult10 |-> 30], [chips |-> 36, mult10 |-> 32],
       [chips |-> 42, mult10 |-> 34], [chips |-> 48, mult10 |-> 36],
       [chips |-> 54, mult10 |-> 38], [chips |-> 60, mult10 |-> 40],
       [chips |-> 66, mult10 |-> 42], [chips |-> 72, mult10 |-> 44],
       [chips |-> 78, mult10 |-> 46], [chips |-> 84, mult10 |-> 48],
       [chips |-> 90, mult10 |-> 50] >>

\* A faulty group size (pairs instead of triples).
PARTS_PER_TB_Pairs == 3 - 1

\* PARTS_PER_TB
PARTS_PER_TB == 3

\* --------------------------------------------------------- float arithmetic
RECURSIVE Pow2(_)
Pow2(n) == IF n <= 0 THEN 1 ELSE 2 * Pow2(n - 1)

RECURSIVE Log2Floor(_)
Log2Floor(n) == IF n < 2 THEN 0 ELSE 1 + Log2Floor(n \div 2)

\* p / q rounded to the nearest integer, ties to the even one (q > 0).
RoundHalfEven(p, q) ==
    LET fl == p \div q
        r  == p % q
    IN  IF 2 * r < q THEN fl
        ELSE IF 2 * r > q THEN fl + 1
        ELSE IF fl % 2 = 0 THEN fl ELSE fl + 1

\* An int as a float (exact below 2^53).
FromInt(n) == [int |-> n, frac |-> 0]

\* The double nearest to mult10/10 is (mult10 * 2^E + n) / (10 * 2^E) with
\* E = 52, 51, 50 for a value in [1,2), [2,4), [4,8); n is MantissaErr.
MantissaExp(mult10) == IF mult10 < 20 THEN 52 ELSE IF mult10 < 40 THEN 51 ELSE 50

MantissaErr(mult10) ==
    LET E    == MantissaExp(mult10)
        \* 2^52, 2^51, 2^50 end in 6, 8, 4
        last == IF E = 52 THEN 6 ELSE IF E = 51 THEN 8 ELSE 4
        rem  == (mult10 * last) % 10
    IN  IF rem < 5 THEN 0 - rem ELSE 10 - rem

\* base * mult in double arithmetic: the exact product base * fl(mult) is
\* K + base * n / (10 * 2^E), rounded to a multiple of ulp(K) = 2^(k-52).
FloatMul(base, mult10) ==
    LET K    == (base * mult10) \div 10
        k    == Log2Floor(K)
        E    == MantissaExp(mult10)
        ulps == RoundHalfEven(base * MantissaErr(mult10) * Pow2(52 - E),
                              10 * Pow2(k))
    IN  [int |-> K, frac |-> ulps * Pow2(k - 6)]

\* a + b in double arithmetic (both positive, or a = 0).
FloatAdd(a, b) ==
    LET K == a.int + b.int
        f == a.frac + b.frac
        u == Pow2(Log2Floor(K) - 6)
    IN  IF a.int = 0 /\ a.frac = 0 THEN b
        ELSE [int |-> K, frac |-> RoundHalfEven(f, u) * u]

\* a >= b and a > b on floats.
FloatGe(a, b) == a.int > b.int \/ (a.int = b.int /\ a.frac >= b.frac)

FloatGt(a, b) == a.int > b.int \/ (a.int = b.int /\ a.frac > b.frac)

\* ------------------------------------------------------------ input sets
\* The part types whose count the user edits (the others stay at 0), and the
\* values entered in the other number inputs.
EditableParts == {"E", "R2", "Y3"}

PartChoices == [p \in EditableParts |-> IF p = "Y3" THEN {0, 2} ELSE 0..MaxParts]

\* The TBs whose minimum the user edits.
EditedSlots == {1, 2}

ChipChoices == {0, 2, 9}

NumTBChoices == {1, 2, 3}

MinChoices == {0, 1960, 15001, 21501}

\* ------------------------------------------------------------------ presets
PresetKeys == {"parts", "chips", "num_tbs", "min_reqs"}

NoParts == [p \in PartTypes |-> 0]

PRESETS ==
    [n \in {"Default (empty)", "Sample 1", "Sample 2"} |->
        IF n = "Default (empty)"
        THEN [parts |-> NoParts, chips |-> 0, num_tbs |-> 3, min_reqs |-> <<0, 0, 0>>]
        ELSE IF n = "Sample 1"
        THEN [parts |-> [E |-> 2, R4 |-> 1, R3 |-> 0, R2 |-> 6, R1 |-> 2,
                         R |-> 2, Y3 |-> 0, Y2 |-> 0, Y1 |-> 0, Y |-> 0],
              chips |-> 23, num_tbs |-> 3, min_reqs |-> <<4500, 3500, 3000>>]
        ELSE [parts |-> [E |-> 1, R4 |-> 2, R3 |-> 1, R2 |-> 3, R1 |-> 1,
                         R |-> 1, Y3 |-> 0, Y2 |-> 0, Y1 |-> 0, Y |-> 0],
              chips |-> 15, num_tbs |-> 2, min_reqs |-> <<3000, 2000>>]]

VARIABLES
    preset,                 \* st.session_state.preset
    custom_presets,         \* st.session_state.custom_presets
    preset_choice,          \* the selectbox
    NUM_TBS,                \* number inputs
    total_chips_available,
    available_parts_input,
    min_reqs_per_tb,
    uploaded_file,          \* the file uploader: "none" or the file it holds
    upload_status,          \* what the upload handler showed in the last rerun
    outcome,                \* what the Solve block showed in the last rerun
    tb_configs,             \* locals of the Solve block
    total_resonance_sum

vars == <<preset, custom_presets, preset_choice, NUM_TBS, total_chips_available,
          available_parts_input, min_reqs_per_tb, uploaded_file, upload_status,
          outcome, tb_configs, total_resonance_sum>>

\* ------------------------------------------------------- helper arithmetic
RECURSIVE SumSeq(_)
SumSeq(s) == IF s = <<>> THEN 0 ELSE s[1] + SumSeq(Tail(s))

Range(s) == {s[i] : i \in 1..Len(s)}

RECURSIVE Repeat(_, _)
Repeat(v, n) == IF n <= 0 THEN <<>> ELSE <<v>> \o Repeat(v, n - 1)

\* ------------------------------------------------------- input validation
SumOfParts(parts) == SumSeq([i \in 1..Len(PartOrder) |-> parts[PartOrder[i]]])

SumOfBaseValues == SumSeq([i \in 1..Len(PartOrder) |-> PART_BASE_VALUES[PartOrder[i]]])

MaxMult10 ==
    CHOOSE m \in {MULTIPLIER_DATA[j].mult10 : j \in 1..Len(MULTIPLIER_DATA)} :
        \A j \in 1..Len(MULTIPLIER_DATA) : MULTIPLIER_DATA[j].mult10 <= m

\* x > sum(PART_BASE_VALUES) * max(MULTIPLIER_DATA.values()), x an int
ImpossiblyHigh(x) == FloatGt(FromInt(x), FloatMul(SumOfBaseValues, MaxMult10))

InputIssues(parts, chips, ntbs, mins) ==
    (IF SumOfParts(parts) < PARTS_PER_TB * ntbs THEN {"parts"} ELSE {})
    \cup (IF chips < ntbs THEN {"chips"} ELSE {})
    \cup (IF \E i \in 1..Len(mins) : ImpossiblyHigh(mins[i]) THEN {"min"} ELSE {})

\* ---------------------------------------------------- candidate generation
\* part_instance_list: each part type repeated count times, in dict order.
RECURSIVE ExpandParts(_, _)
ExpandParts(parts, i) ==
    IF i > Len(PartOrder) THEN <<>>
    ELSE Repeat(PartOrder[i], parts[PartOrder[i]]) \o ExpandParts(parts, i + 1)

PartInstanceList(parts) == ExpandParts(parts, 1)

\* itertools.combinations(range(lo, n), k), in its (lexicographic) order.
RECURSIVE Combinations(_, _, _)
Combinations(lo, n, k) ==
    IF k = 0 THEN << <<>> >>
    ELSE IF n - lo < k THEN <<>>
    ELSE LET with == Combinations(lo + 1, n, k - 1)
         IN  [j \in 1..Len(with) |-> <<lo>> \o with[j]]
             \o Combinations(lo + 1, n, k)

BaseOf(parts) == SumSeq([j \in 1..Len(parts) |-> PART_BASE_VALUES[parts[j]]])

\* The base values a group of PARTS_PER_TB parts can have, and the product of
\* each with each multiplier of the table, evaluated once.
RECURSIVE BaseSums(_)
BaseSums(k) ==
    IF k = 0 THEN {0}
    ELSE {b + PART_BASE_VALUES[p] : b \in BaseSums(k - 1), p \in PartTypes}

Products ==
    [b \in BaseSums(PARTS_PER_TB) \cup BaseSums(3),
     e \in 1..Len(MULTIPLIER_DATA) |-> FloatMul(b, MULTIPLIER_DATA[e].mult10)] @@ <<>>

\* resonance = base * mult, for the table entry e
Resonance(base, e) == Products[<<base, e>>]

\* The candidates of one index tuple: one per table entry, in table order.
CombosOf(list, idxs) ==
    LET parts == [j \in 1..Len(idxs) |-> list[idxs[j] + 1]]
        base  == BaseOf(parts)
    IN  [e \in 1..Len(MULTIPLIER_DATA) |->
            [idxs      |-> idxs,
             parts     |-> parts,
             chips     |-> MULTIPLIER_DATA[e].chips,
             resonance |-> Resonance(base, e)]]

RECURSIVE Flatten(_)
Flatten(ss) == IF ss = <<>> THEN <<>> ELSE ss[1] \o Flatten(Tail(ss))

\* A faulty generation: only the first table entry of every index tuple.
GenerateCombosFirstEntryOnly(list) ==
    LET tuples == Combinations(0, Len(list), PARTS_PER_TB)
    IN  [t \in 1..Len(tuples) |-> CombosOf(list, tuples[t])[1]]

\* combos: for every index tuple of itertools.combinations(range(N), 3), in
\* order, one candidate per table entry.
GenerateCombos(list) ==
    LET tuples == Combinations(0, Len(list), PARTS_PER_TB)
    IN  Flatten([t \in 1..Len(tuples) |-> CombosOf(list, tuples[t])])

\* ------------------------------------------------------ the integer program
\* cs is the candidate list.  The constraint "sum of a TB's variables == 1"
\* makes a solution one key (cidx, tb) per TB: a selection is the sequence of
\* the chosen cidx, one per TB.

\* A faulty filter: every (cidx, tb) gets a variable.
HasVarNoMinimum(c, min) == TRUE

\* x has a variable for (cidx, tb): the candidate's resonance meets the TB's
\* minimum.
HasVar(c, min) == FloatGe(c.resonance, FromInt(min))

\* A faulty loop, for i in range(1, N): instance 0 is left unconstrained.
InstanceOnceFromSecond(used, idxs) == (used \cap idxs) \subseteq {0}

\* for i in range(N): the chosen candidates that use instance i are at most
\* one.  used holds the instances of the candidates chosen so far, idxs those
\* of one more.
InstanceOnce(used, idxs) == used \cap idxs = {}

\* A faulty budget: every candidate on its own within total_chips_available.
ChipBudgetPerTB(spent, c, budget) == c.chips <= budget

\* the chips of the chosen candidates sum to at most total_chips_available.
\* spent is the sum over the candidates chosen so far.
ChipBudget(spent, c, budget) == spent + c.chips <= budget

\* The selections that satisfy the three constraint families, built TB by TB.
\* Adding a candidate never repairs a broken instance or chip constraint
\* (chips are >= 0), so a partial selection that breaks one is dropped at once.
\* The keys of a TB are taken up by the instances they use.
FeasibleSelections(cs, mins, ntbs, budget) ==
    LET idxsOf == [c \in 1..Len(cs) |-> Range(cs[c].idxs)] @@ <<>>
        RECURSIVE Extend(_, _)
        Extend(partials, tb) ==
            IF tb > ntbs THEN partials
            ELSE LET keys   == {c \in 1..Len(cs) :
                                  /\ HasVar(cs[c], mins[tb])
                                  /\ ChipBudget(0, cs[c], budget)}
                     groups == {idxsOf[c] : c \in keys}
                     keysOf == [g \in groups |-> {c \in keys : idxsOf[c] = g}] @@ <<>>
                 IN  Extend(UNION {UNION {{[sel   |-> Append(p.sel, c),
                                            used  |-> p.used \cup g,
                                            spent |-> p.spent + cs[c].chips] :
                                               c \in {c \in keysOf[g] :
                                                        ChipBudget(p.spent, cs[c], budget)}} :
                                          g \in {g \in groups : InstanceOnce(p.used, g)}} :
                                   p \in partials},
                            tb + 1)
    IN  {p.sel : p \in Extend({[sel |-> <<>>, used |-> {}, spent |-> 0]}, 1)}

\* The objective sum of x * resonance, as the exact real sum of the doubles.
RECURSIVE Objective(_, _, _)
Objective(sel, cs, n) ==
    IF n = 0 THEN FromInt(0)
    ELSE LET rest == Objective(sel, cs, n - 1)
         IN  [int  |-> cs[sel[n]].resonance.int + rest.int,
              frac |-> cs[sel[n]].resonance.frac + rest.frac]

\* A faulty solve: any selection that meets the constraints.
OptimalSelectionsAnyFeasible(cs, mins, ntbs, budget) ==
    FeasibleSelections(cs, mins, ntbs, budget)

\* prob.solve(): status Optimal with any maximiser of the objective when the
\* constraints can be met (ties are the solver's to break), not Optimal otherwise.
OptimalSelections(cs, mins, ntbs, budget) ==
    LET F      == FeasibleSelections(cs, mins, ntbs, budget)
        scored == {<<sel, Objective(sel, cs, ntbs)>> : sel \in F}
        V      == {s[2] : s \in scored}
        best   == CHOOSE v \in V : \A w \in V : FloatGe(v, w)
    IN  IF F = {} THEN {} ELSE {s[1] : s \in {s \in scored : s[2] = best}}

\* tb_configs[tb] = combos[cidx] for the variables with varValue > 0.5
TbConfigs(sel, cs, ntbs) == [tb \in 1..ntbs |-> cs[sel[tb]]]

\* total_resonance_sum = 0; total_resonance_sum += config['resonance']
RECURSIVE TotalResonance(_, _)
TotalResonance(configs, n) ==
    IF n = 0 THEN FromInt(0)
    ELSE FloatAdd(TotalResonance(configs, n - 1), configs[n].resonance)

\* ------------------------------------------------------------ the Solve block
\* The inputs the actions below can produce.
RECURSIVE FillParts(_, _)
FillParts(types, invs) ==
    IF types = {} THEN invs
    ELSE LET p == CHOOSE p \in types : TRUE
         IN  FillParts(types \ {p},
                       {[inv EXCEPT ![p] = n] : inv \in invs, n \in PartChoices[p]})

Inventories == {inv \in FillParts(EditableParts, {NoParts}) : SumOfParts(inv) <= MaxParts}

MinInputs ==
    UNION {{m \in [1..n -> MinChoices \cup {0}] :
               \A i \in 1..n : i \in EditedSlots \/ m[i] = 0} : n \in NumTBChoices}

\* The candidate list of every inventory, evaluated once.
Generated == [inv \in Inventories |-> GenerateCombos(PartInstanceList(inv))] @@ <<>>

InputSpace == Inventories \X ChipChoices \X MinInputs

\* What one press of Solve computes from the inputs: the issues, the candidate
\* list (when built) and, for each selection the solver may return, the
\* tb_configs and the total read off it.
SolveBlock(parts, chips, ntbs, mins) ==
    LET input_issues == InputIssues(parts, chips, ntbs, mins)
        cs           == Generated[parts]
    IN  IF input_issues # {}
        THEN [issues |-> input_issues, combos |-> <<>>, results |-> {}]
        ELSE [issues |-> {}, combos |-> cs,
              results |->
                  {[tb_configs          |-> TbConfigs(sel, cs, ntbs),
                    total_resonance_sum |-> TotalResonance(TbConfigs(sel, cs, ntbs), ntbs)] :
                      sel \in OptimalSelections(cs, mins, ntbs, chips)}]

\* SolveBlock of every input, evaluated once.
Solved == [i \in InputSpace |-> SolveBlock(i[1], i[2], Len(i[3]), i[3])] @@ <<>>

\* ------------------------------------------------------------------ presets
AllPresetNames(cp) == DOMAIN PRESETS \cup DOMAIN cp

PresetData(cp, name) == IF name \in DOMAIN PRESETS THEN PRESETS[name] ELSE cp[name]

\* Lines 98-113 read preset["num_tbs"], ["chips"], ["parts"], ["min_reqs"]: a
\* selected preset without them raises and ends the rerun there.
WellFormedPreset(d) == PresetKeys \subseteq DOMAIN d

ScriptCrashes(cp, choice) == ~WellFormedPreset(PresetData(cp, choice))

\* The files the user uploads: broken JSON text, a JSON object that is no
\* preset record, and a preset record.
UploadChoices == {"syntax_error", "missing_keys", "well_formed"}

FileValue(f) ==
    IF f = "well_formed"
    THEN [parts |-> [NoParts EXCEPT !["E"] = 3], chips |-> 9, num_tbs |-> 1,
          min_reqs |-> <<0>>]
    ELSE [chips |-> 5]

\* json.load: raises on text that is not JSON, returns the value otherwise.
JsonLoad(f) == [raised |-> f = "syntax_error", value |-> FileValue(f)]

\* The upload handler, run by every rerun that gets that far while the
\* uploader holds a file.
AfterUpload(cp, f) ==
    IF f = "none" \/ JsonLoad(f).raised THEN cp
    ELSE [n \in DOMAIN cp \cup {"Uploaded Preset"} |->
            IF n = "Uploaded Preset" THEN JsonLoad(f).value ELSE cp[n]]

UploadStatus(f) ==
    IF f = "none" THEN "none" ELSE IF JsonLoad(f).raised THEN "error" ELSE "success"

\* ------------------------------------------------------------------- state
Init ==
    /\ preset = "Default (empty)"
    /\ custom_presets = [n \in {} |-> PRESETS["Default (empty)"]]
    /\ preset_choice = "Default (empty)"
    /\ NUM_TBS = PRESETS["Default (empty)"].num_tbs
    /\ total_chips_available = PRESETS["Default (empty)"].chips
    /\ available_parts_input = PRESETS["Default (empty)"].parts
    /\ min_reqs_per_tb = PRESETS["Default (empty)"].min_reqs
    /\ uploaded_file = "none"
    /\ upload_status = "none"
    /\ outcome = "none"
    /\ tb_configs = <<>>
    /\ total_resonance_sum = FromInt(0)

\* The tail of a rerun in which Solve was not the button pressed: the Solve
\* block is skipped and its output of the previous rerun is gone.
NoSolve ==
    /\ outcome' = "none"
    /\ tb_configs' = <<>>
    /\ total_resonance_sum' = FromInt(0)

\* Lines 116-146 of a rerun: cp is custom_presets after a Save (if any), f the
\* file the uploader holds.  A rerun that raised at the preset never gets here.
PresetSection(cp, f, crashed) ==
    /\ custom_presets' = IF crashed THEN cp ELSE AfterUpload(cp, f)
    /\ upload_status' = IF crashed THEN "none" ELSE UploadStatus(f)

Rendered == ~ScriptCrashes(custom_presets, preset_choice)

\* ----------------------------------------------------------------- actions
SelectPreset(name) ==
    /\ name \in AllPresetNames(custom_presets)
    /\ name # preset_choice
    /\ preset_choice' = name
    /\ PresetSection(custom_presets, uploaded_file,
                     ScriptCrashes(custom_presets, name))
    /\ NoSolve
    /\ UNCHANGED <<preset, NUM_TBS, total_chips_available, available_parts_input,
                   min_reqs_per_tb, uploaded_file>>

LoadPreset ==
    /\ preset' = preset_choice
    /\ PresetSection(custom_presets, uploaded_file, ~Rendered)
    /\ NoSolve
    /\ UNCHANGED <<preset_choice, NUM_TBS, total_chips_available,
                   available_parts_input, min_reqs_per_tb, uploaded_file>>

\* The minimum inputs are keyed minreq_0 .. minreq_{NUM_TBS-1}; one that is
\* rendered anew starts at its default.
MinReqDefault(i) ==
    LET d == PresetData(custom_presets, preset_choice).min_reqs
    IN  IF i <= Len(d) THEN d[i] ELSE 0

SetNumTBs(n) ==
    /\ Rendered
    /\ n # NUM_TBS
    /\ NUM_TBS' = n
    /\ min_reqs_per_tb' =
          [i \in 1..n |-> IF i <= NUM_TBS THEN min_reqs_per_tb[i] ELSE MinReqDefault(i)]
    /\ PresetSection(custom_presets, uploaded_file, FALSE)
    /\ NoSolve
    /\ UNCHANGED <<preset, preset_choice, total_chips_available,
                   available_parts_input, uploaded_file>>

SetChips(c) ==
    /\ Rendered
    /\ c # total_chips_available
    /\ total_chips_available' = c
    /\ PresetSection(custom_presets, uploaded_file, FALSE)
    /\ NoSolve
    /\ UNCHANGED <<preset, preset_choice, NUM_TBS, available_parts_input,
                   min_reqs_per_tb, uploaded_file>>

SetPart(p, n) ==
    /\ Rendered
    /\ n # available_parts_input[p]
    /\ SumOfParts(available_parts_input) - available_parts_input[p] + n <= MaxParts
    /\ available_parts_input' = [available_parts_input EXCEPT ![p] = n]
    /\ PresetSection(custom_presets, uploaded_file, FALSE)
    /\ NoSolve
    /\ UNCHANGED <<preset, preset_choice, NUM_TBS, total_chips_available,
                   min_reqs_per_tb, uploaded_file>>

SetMinReq(i, v) ==
    /\ Rendered
    /\ i \in 1..NUM_TBS
    /\ v # min_reqs_per_tb[i]
    /\ min_reqs_per_tb' = [min_reqs_per_tb EXCEPT ![i] = v]
    /\ PresetSection(custom_presets, uploaded_file, FALSE)
    /\ NoSolve
    /\ UNCHANGED <<preset, preset_choice, NUM_TBS, total_chips_available,
                   available_parts_input, uploaded_file>>

\* "Save as Custom Preset" with the text input holding name (already stripped).
SavePreset(name) ==
    /\ Rendered
    /\ LET preset_data == [parts    |-> available_parts_input,
                           chips    |-> total_chips_available,
                           num_tbs  |-> NUM_TBS,
                           min_reqs |-> min_reqs_per_tb]
           saved == IF name = "" THEN custom_presets
                    ELSE [n \in DOMAIN custom_presets \cup {name} |->
                            IF n = name THEN preset_data ELSE custom_presets[n]]
       IN  PresetSection(saved, uploaded_file, FALSE)
    /\ NoSolve
    /\ UNCHANGED <<preset, preset_choice, NUM_TBS, total_chips_available,
                   available_parts_input, min_reqs_per_tb, uploaded_file>>

UploadFile(f) ==
    /\ Rendered
    /\ f # uploaded_file
    /\ uploaded_file' = f
    /\ PresetSection(custom_presets, f, FALSE)
    /\ NoSolve
    /\ UNCHANGED <<preset, preset_choice, NUM_TBS, total_chips_available,
                   available_parts_input, min_reqs_per_tb>>

ClearUpload ==
    /\ Rendered
    /\ uploaded_file # "none"
    /\ uploaded_file' = "none"
    /\ PresetSection(custom_presets, "none", FALSE)
    /\ NoSolve
    /\ UNCHANGED <<preset, preset_choice, NUM_TBS, total_chips_available,
                   available_parts_input, min_reqs_per_tb>>

\* The Solve button.
Solve ==
    /\ Rendered
    /\ PresetSection(custom_presets, uploaded_file, FALSE)
    /\ LET r == Solved[<<available_parts_input, total_chips_available, min_reqs_per_tb>>]
       IN  IF r.issues # {}
           THEN /\ outcome' = "rejected"
                /\ tb_configs' = <<>>
                /\ total_resonance_sum' = FromInt(0)
           ELSE IF r.results = {}
           THEN /\ outcome' = "infeasible"
                /\ tb_configs' = <<>>
                /\ total_resonance_sum' = FromInt(0)
           ELSE \E res \in r.results :
                  /\ outcome' = "success"
                  /\ tb_configs' = res.tb_configs
                  /\ total_resonance_sum' = res.total_resonance_sum
    /\ UNCHANGED <<preset, preset_choice, NUM_TBS, total_chips_available,
                   available_parts_input, min_reqs_per_tb, uploaded_file>>

\* The candidate list of the last rerun: built only by a Solve that passed the
\* input_issues gate.
combos ==
    IF outcome \in {"success", "infeasible"}
    THEN Solved[<<available_parts_input, total_chips_available, min_reqs_per_tb>>].combos
    ELSE <<>>

\* The solver: the user edits the inputs and presses Solve.
Next ==
    \/ \E n \in NumTBChoices : SetNumTBs(n)
    \/ \E c \in ChipChoices : SetChips(c)
    \/ \E p \in EditableParts : \E n \in PartChoices[p] : SetPart(p, n)
    \/ \E i \in EditedSlots : \E v \in MinChoices : SetMinReq(i, v)
    \/ Solve

Spec == Init /\ [][Next]_vars

\* The presets: the user saves, uploads, selects and loads presets.
SaveNames == {"", "Mine", "Uploaded Preset"}

NextPreset ==
    \/ \E n \in AllPresetNames(custom_presets) : SelectPreset(n)
    \/ LoadPreset
    \/ \E n \in SaveNames : SavePreset(n)
    \/ \E f \in UploadChoices : UploadFile(f)
    \/ ClearUpload
    \/ \E c \in ChipChoices : SetChips(c)

SpecPreset == Init /\ [][NextPreset]_vars

\* ------------------------------------------------------------------ claims
\* The inputs of the current rerun, and what the claims say about them.
Input == <<available_parts_input, total_chips_available, min_reqs_per_tb>>

part_instance_list == PartInstanceList(available_parts_input)

N == Len(part_instance_list)

Solving == outcome # "none"

\* A group as the claims describe it: three distinct instance indices and a
\* table entry; its score is the sum of the three base values times the
\* entry's multiplier.
ThreeSubsets(n) == {S \in SUBSET (0..(n - 1)) : Cardinality(S) = 3}

RECURSIVE BaseSum(_, _)
BaseSum(list, S) ==
    IF S = {} THEN 0
    ELSE LET i == CHOOSE i \in S : TRUE
         IN  PART_BASE_VALUES[list[i + 1]] + BaseSum(list, S \ {i})

GroupScore(base, j) == FloatMul(base, MULTIPLIER_DATA[j].mult10)

\* The base values, slot by slot, of the ways to give each of n slots three
\* instances of its own.
RECURSIVE DisjointBases(_, _, _)
DisjointBases(list, n, used) ==
    IF n = 0 THEN {<<>>}
    ELSE UNION {{<<BaseSum(list, S)>> \o rest :
                    rest \in DisjointBases(list, n - 1, used \cup S)} :
                S \in {S \in ThreeSubsets(Len(list)) : S \cap used = {}}}

\* The total scores of the feasible assignments: one group per slot, groups
\* pairwise disjoint, each score >= its slot's minimum, chips within budget.
FeasibleTotalsOf(list, budget, mins) ==
    LET RECURSIVE Totals(_, _, _, _)
        Totals(bases, tb, left, sum) ==
            IF tb > Len(mins) THEN {sum}
            ELSE UNION {Totals(bases, tb + 1, left - MULTIPLIER_DATA[j].chips,
                               FloatAdd(sum, GroupScore(bases[tb], j))) :
                           j \in {j \in 1..Len(MULTIPLIER_DATA) :
                                    /\ MULTIPLIER_DATA[j].chips <= left
                                    /\ FloatGe(GroupScore(bases[tb], j),
                                               FromInt(mins[tb]))}}
    IN  UNION {Totals(bases, 1, budget, FromInt(0)) :
                  bases \in DisjointBases(list, Len(mins), {})}

FeasibleTotals ==
    [i \in InputSpace |-> FeasibleTotalsOf(PartInstanceList(i[1]), i[2], i[3])] @@ <<>>

RECURSIVE SumOfResonance(_, _)
SumOfResonance(configs, n) ==
    IF n = 0 THEN FromInt(0)
    ELSE FloatAdd(SumOfResonance(configs, n - 1), configs[n].resonance)

RECURSIVE SumOfChips(_, _)
SumOfChips(configs, n) ==
    IF n = 0 THEN 0 ELSE SumOfChips(configs, n - 1) + configs[n].chips

MultOfChips(chips) ==
    MULTIPLIER_DATA[CHOOSE j \in 1..Len(MULTIPLIER_DATA) :
                        MULTIPLIER_DATA[j].chips = chips].mult10

\* C1 (optimality): on success the reported total is the sum of the chosen
\* candidates' resonance and no feasible assignment has a greater total.
C1_Optimality ==
    outcome = "success" =>
        /\ total_resonance_sum = SumOfResonance(tb_configs, Len(tb_configs))
        /\ \A t \in FeasibleTotals[Input] : FloatGe(total_resonance_sum, t)

\* A success with two TBs for which some feasible assignment scores less.
C1_Witness ==
    /\ outcome = "success"
    /\ NUM_TBS = 2
    /\ \E t \in FeasibleTotals[Input] : FloatGt(total_resonance_sum, t)

\* C2 (completeness): whenever a feasible assignment exists, pressing Solve
\* yields success with a score-maximizing assignment.
C2_Completeness ==
    (Solving /\ FeasibleTotals[Input] # {}) =>
        /\ outcome = "success"
        /\ \A t \in FeasibleTotals[Input] : FloatGe(total_resonance_sum, t)

\* C3 (part disjointness): on success no part-instance index is in the groups
\* of two TBs, and every group is three distinct indices of the instance list.
C3_PartsDisjoint ==
    outcome = "success" =>
        /\ \A t1, t2 \in 1..Len(tb_configs) :
              t1 # t2 => Range(tb_configs[t1].idxs) \cap Range(tb_configs[t2].idxs) = {}
        /\ \A t \in 1..Len(tb_configs) :
              /\ Range(tb_configs[t].idxs) \subseteq 0..(N - 1)
              /\ Cardinality(Range(tb_configs[t].idxs)) = 3

\* A success with two TBs (six instances in use).
C3_Witness ==
    /\ outcome = "success"
    /\ NUM_TBS = 2
    /\ Cardinality(Range(tb_configs[1].idxs) \cup Range(tb_configs[2].idxs)) = 6

\* C4 (budget): on success the chips of the chosen candidates sum to at most
\* total_chips_available.
C4_WithinBudget ==
    outcome = "success" =>
        SumOfChips(tb_configs, Len(tb_configs)) <= total_chips_available

\* A success with two TBs that spends chips on both and the whole budget.
C4_Witness ==
    /\ outcome = "success"
    /\ NUM_TBS = 2
    /\ tb_configs[1].chips > 0
    /\ tb_configs[2].chips > 0
    /\ SumOfChips(tb_configs, 2) = total_chips_available

\* C5 (slot minimums): on success every TB has exactly one candidate group and
\* its score, base sum times multiplier, is >= the TB's minimum.
C5_SlotMinimums ==
    outcome = "success" =>
        /\ Len(tb_configs) = NUM_TBS
        /\ \A tb \in 1..NUM_TBS :
              /\ tb_configs[tb] \in Range(combos)
              /\ tb_configs[tb].resonance =
                    FloatMul(BaseSum(part_instance_list, Range(tb_configs[tb].idxs)),
                             MultOfChips(tb_configs[tb].chips))
              /\ FloatGe(tb_configs[tb].resonance, FromInt(min_reqs_per_tb[tb]))

\* A success with two TBs and a minimum above 0 on one of them.
C5_Witness ==
    /\ outcome = "success"
    /\ NUM_TBS = 2
    /\ \E tb \in 1..NUM_TBS : min_reqs_per_tb[tb] > 0

\* C6 (pigeonhole): with fewer than 3 instances per TB a Solve never succeeds:
\* it ends rejected or infeasible, with no assignment.
C6_Pigeonhole ==
    (Solving /\ N < 3 * NUM_TBS) =>
        /\ outcome \in {"rejected", "infeasible"}
        /\ tb_configs = <<>>

\* Two instances, one TB, chips and minimum in order: Solve has refused.
C6_Witness ==
    /\ Solving
    /\ N = 2
    /\ NUM_TBS = 1
    /\ total_chips_available >= NUM_TBS
    /\ min_reqs_per_tb = <<0>>
    /\ outcome = "rejected"

\* The inputs of the scenario: {E:2, R2:2}, 9 chips, one TB with minimum 0.
C7_Scenario ==
    /\ available_parts_input = [NoParts EXCEPT !["E"] = 2, !["R2"] = 2]
    /\ total_chips_available = 9
    /\ NUM_TBS = 1
    /\ min_reqs_per_tb = <<0>>

\* C7 as stated: the scenario ends in success with score 4300.
C7_Score4300 ==
    (C7_Scenario /\ Solving) =>
        /\ outcome = "success"
        /\ total_resonance_sum = FromInt(4300)
        /\ tb_configs[1].resonance = FromInt(4300)

\* C7 (amended): the scenario ends in success with score 5100, from the
\* triple E,E,R2 (base 2550) at the table entry of 9 chips (multiplier 2.0).
C7_Score5100 ==
    (C7_Scenario /\ Solving) =>
        /\ outcome = "success"
        /\ total_resonance_sum = FromInt(5100)
        /\ tb_configs[1].resonance = FromInt(5100)
        /\ tb_configs[1].parts = <<"E", "E", "R2">>
        /\ tb_configs[1].chips = 9
        /\ BaseSum(part_instance_list, Range(tb_configs[1].idxs)) = 2550

\* The scenario has been solved.
C7_Witness == C7_Scenario /\ outcome = "success"

\* The candidate list is made of exactly one entry per 3-subset of instance
\* indices and table entry, each scored base sum times multiplier.
RECURSIVE Binomial(_, _)
Binomial(n, k) ==
    IF k = 0 THEN 1 ELSE IF n < k THEN 0
    ELSE Binomial(n - 1, k - 1) + Binomial(n - 1, k)

CandidatesAsClaimed(list, cs) ==
    /\ Len(cs) = Binomial(Len(list), 3) * Len(MULTIPLIER_DATA)
    /\ {<<Range(cs[c].idxs), cs[c].chips>> : c \in 1..Len(cs)} =
          ThreeSubsets(Len(list)) \X {MULTIPLIER_DATA[j].chips : j \in 1..Len(MULTIPLIER_DATA)}
    /\ \A c \in 1..Len(cs) :
          /\ Len(cs[c].idxs) = 3
          /\ cs[c].resonance =
                FloatMul(BaseSum(list, Range(cs[c].idxs)), MultOfChips(cs[c].chips))

GeneratedAsClaimed ==
    [inv \in Inventories |->
        CandidatesAsClaimed(PartInstanceList(inv), Generated[inv])] @@ <<>>

\* C8 (candidate generation): the list Solve builds has C(N,3) x |MULTIPLIER_DATA|
\* entries, one per (3-subset, table entry), each with resonance base sum x
\* multiplier; the list of fewer than 3 instances is empty.
C8_CandidateList ==
    /\ outcome \in {"success", "infeasible"} =>
          /\ combos = Generated[available_parts_input]
          /\ GeneratedAsClaimed[available_parts_input]
    /\ N < 3 => Generated[available_parts_input] = <<>>

\* Solve has built the candidate list of six instances: C(6,3) = 20 index
\* triples, 21 table entries each.
C8_Witness ==
    /\ outcome \in {"success", "infeasible"}
    /\ N = 6
    /\ Len(combos) = 20 * 21

\* The best score a group can have: three parts of the highest base value at
\* the highest multiplier.
MaxGroupScore ==
    LET top == CHOOSE v \in {PART_BASE_VALUES[p] : p \in PartTypes} :
                  \A p \in PartTypes : PART_BASE_VALUES[p] <= v
    IN  FloatMul(3 * top, MaxMult10)

\* C9 (unreachable minimum): a minimum above the best possible group score is
\* invalid input: Solve refuses before any candidate is generated.
C9_RejectedBeforeSolve ==
    (Solving /\ \E tb \in 1..NUM_TBS :
                    FloatGt(FromInt(min_reqs_per_tb[tb]), MaxGroupScore)) =>
        /\ outcome = "rejected"
        /\ combos = <<>>

\* C10 (atomic load failure): a rerun that takes up a file that is no
\* well-formed preset record reports an error, leaves custom_presets as it was
\* and stores nothing that is not a preset.
C10_LoadFailureAtomic ==
    [][(uploaded_file' # uploaded_file /\ uploaded_file' # "none"
            /\ (JsonLoad(uploaded_file').raised
                   \/ ~WellFormedPreset(JsonLoad(uploaded_file').value)))
          => /\ upload_status' = "error"
             /\ custom_presets' = custom_presets
             /\ \A n \in DOMAIN custom_presets' : WellFormedPreset(custom_presets'[n])]_vars

====
